---- MODULE Spec2Model ----
(***************************************************************************)
(* Model of the statistics engine of HAPPY1024_v1.4.py: main's prompts and *)
(* summary, collect_stats with its project loop and directory walk, and    *)
(* the pure helpers (is_hidden, human_size, count_code_lines,              *)
(* normalize_name, get_language, parse_root_dirs, _unique_project_name).   *)
(*                                                                         *)
(* Text is modelled as a sequence of one-character strings, a path as the  *)
(* sequence of its components below "/", an integer byte count given to    *)
(* human_size as its little-endian base-1024 digits (so that counts of     *)
(* 1024^4 and more can be written).                                        *)
(***************************************************************************)
EXTENDS Integers, Sequences, FiniteSets, TLC

\* ------------------------------------------------------------------ bounds
\* Longest list of root paths typed at the prompt.
MaxRoots == 2
\* Most base-1024 digits of a byte count handed to human_size.
MaxDigits == 5

\* -------------------------------------------------------------------- text
Last(s) == s[Len(s)]
Range(s) == {s[i] : i \in DOMAIN s}
startswith(s, c) == Len(s) > 0 /\ s[1] = c

Digits == <<"0", "1", "2", "3", "4", "5", "6", "7", "8", "9">>
UpperCase == <<"A", "B", "C", "D", "E", "F", "G", "H", "I", "J", "K", "L", "M",
               "N", "O", "P", "Q", "R", "S", "T", "U", "V", "W", "X", "Y", "Z">>
LowerCase == <<"a", "b", "c", "d", "e", "f", "g", "h", "i", "j", "k", "l", "m",
               "n", "o", "p", "q", "r", "s", "t", "u", "v", "w", "x", "y", "z">>

\* str.lower()
lower(s) ==
  [i \in DOMAIN s |->
     IF \E k \in DOMAIN UpperCase : UpperCase[k] = s[i]
     THEN LowerCase[CHOOSE k \in DOMAIN UpperCase : UpperCase[k] = s[i]]
     ELSE s[i]]

\* str.isdigit() on ASCII text
isdigit(s) == Len(s) > 0 /\ \A i \in DOMAIN s : s[i] \in Range(Digits)

DigitValue(c) == (CHOOSE k \in DOMAIN Digits : Digits[k] = c) - 1

\* int(s) for an all-digit s
RECURSIVE int(_)
int(s) == IF s = <<>> THEN 0 ELSE 10 * int(SubSeq(s, 1, Len(s) - 1)) + DigitValue(Last(s))

\* f"{n}" for a natural number n
RECURSIVE str(_)
str(n) == IF n < 10 THEN <<Digits[n + 1]>> ELSE str(n \div 10) \o <<Digits[(n % 10) + 1]>>

\* s.rfind(c), 1-based; 0 when c does not occur
rfind(s, c) ==
  IF \E i \in DOMAIN s : s[i] = c THEN CHOOSE i \in DOMAIN s : s[i] = c /\ \A j \in DOMAIN s : s[j] = c => j <= i
  ELSE 0

\* --------------------------------------------------------------- is_hidden
\* parts is path.split(os.sep)
is_hidden(parts) == \E i \in DOMAIN parts : startswith(parts[i], ".")

\* ------------------------------------------------------------ get_language
LANG_EXTENSIONS ==
  << [lang |-> "Python",     exts |-> {<<"p","y">>, <<"p","y","w">>}],
     [lang |-> "C",          exts |-> {<<"c">>, <<"h">>}],
     [lang |-> "C++",        exts |-> {<<"c","p","p">>, <<"h","p","p">>, <<"c","c">>, <<"c","x","x">>}],
     [lang |-> "C#",         exts |-> {<<"c","s">>}],
     [lang |-> "JavaScript", exts |-> {<<"j","s">>, <<"j","s","x">>}],
     [lang |-> "Java",       exts |-> {<<"j","a","v","a">>}],
     [lang |-> "Go",         exts |-> {<<"g","o">>}] >>

\* Python's None where a language label is expected
NoLang == "None"

\* filename.split('.')[-1].lower(): the text after the last '.', the whole name
\* when it holds no '.'
SplitLast(filename) == lower(SubSeq(filename, rfind(filename, ".") + 1, Len(filename)))

get_language(filename) ==
  LET ext == SplitLast(filename)
      hits == {k \in DOMAIN LANG_EXTENSIONS : ext \in LANG_EXTENSIONS[k].exts}
  IN IF hits = {} THEN NoLang
     ELSE LANG_EXTENSIONS[CHOOSE k \in hits : \A j \in hits : k <= j].lang

\* ---------------------------------------------------------- normalize_name
\* os.path.splitext(filename)[0]: cut at the last '.', unless only dots precede it
splitext0(filename) ==
  LET dotIndex == rfind(filename, ".")
  IN IF dotIndex > 0 /\ \E i \in 1..(dotIndex - 1) : filename[i] # "."
     THEN SubSeq(filename, 1, dotIndex - 1)
     ELSE filename

\* re.sub(r'[\d\._-]+$', '', name)
RECURSIVE StripTail(_)
StripTail(name) ==
  IF name # <<>> /\ Last(name) \in (Range(Digits) \cup {".", "_", "-"})
  THEN StripTail(SubSeq(name, 1, Len(name) - 1))
  ELSE name

normalize_name(filename) == StripTail(splitext0(filename))

\* -------------------------------------------------------------- human_size
\* A byte count is its base-1024 digits, lowest first, without leading zeros;
\* after k divisions by 1024 the digits above position k are the integer part and
\* the k lowest digits the fraction.
Units == <<"B", "KB", "MB", "GB">>

RECURSIVE BigInt(_)
BigInt(n) == IF n = 0 THEN <<>> ELSE <<n % 1024>> \o BigInt(n \div 1024)

Drop(d, k) == IF k >= Len(d) THEN <<>> ELSE SubSeq(d, k + 1, Len(d))
Take(d, k) == IF k >= Len(d) THEN d ELSE SubSeq(d, 1, k)

BelowOrAt1024(d, k) == Len(d) <= k + 1 \/ (Drop(d, k) = <<0, 1>> /\ \A i \in 1..k : d[i] = 0)

\* size_bytes < 1024 after k divisions: the integer part has at most one digit
Below1024(d, k) == Len(d) <= k + 1

\* f * 100 for the fraction 0.f[n]...f[1] (base 1024): the product's integer
\* part (0..99) and the digits of what remains
RECURSIVE Times100(_)
Times100(f) ==
  IF f = <<>> THEN [whole |-> 0, rest |-> <<>>]
  ELSE LET low == Times100(SubSeq(f, 1, Len(f) - 1))
           t == Last(f) * 100 + low.whole
       IN [whole |-> t \div 1024, rest |-> low.rest \o <<t % 1024>>]

\* d + 1
RECURSIVE Inc(_)
Inc(d) ==
  IF d = <<>> THEN <<1>>
  ELSE IF Head(d) < 1023 THEN <<Head(d) + 1>> \o Tail(d)
  ELSE <<0>> \o Inc(Tail(d))

\* f"{x:.2f}" for x = whole + 0.f: x to the nearest hundredth, a tie to the even
\* one (x is exact in a double below 2^53 bytes)
Format2f(whole, f) ==
  LET p == Times100(f)
      tie == p.rest # <<>> /\ Last(p.rest) = 512
             /\ \A i \in 1..(Len(p.rest) - 1) : p.rest[i] = 0
      above == p.rest # <<>>
               /\ (Last(p.rest) > 512
                   \/ (Last(p.rest) = 512 /\ \E i \in 1..(Len(p.rest) - 1) : p.rest[i] # 0))
      up == above \/ (tie /\ p.whole % 2 = 1)
      cents == IF up THEN p.whole + 1 ELSE p.whole
  IN IF cents = 100 THEN [whole |-> Inc(whole), cents |-> 0]
     ELSE [whole |-> whole, cents |-> cents]

\* The loop over ['B', 'KB', 'MB', 'GB'] from its k-th round on; 'TB' after it
RECURSIVE human_size_from(_, _)
human_size_from(size_bytes, k) ==
  IF k >= Len(Units)
  THEN [shown |-> Format2f(Drop(size_bytes, k), Take(size_bytes, k)), unit |-> "TB"]
  ELSE IF Below1024(size_bytes, k)
  THEN [shown |-> Format2f(Drop(size_bytes, k), Take(size_bytes, k)), unit |-> Units[k + 1]]
  ELSE human_size_from(size_bytes, k + 1)

human_size(size_bytes) == human_size_from(size_bytes, 0)

\* ------------------------------------------------------------ the clock
\* Seconds since the epoch at 00:00:00 on Jan 1 of year y (the local zone is UTC)
LeapsThrough(y) == (y \div 4) - (y \div 100) + (y \div 400)
StartOfYear(y) == (365 * (y - 1970) + LeapsThrough(y - 1) - LeapsThrough(1969)) * 86400
EndOfYear(y) == StartOfYear(y + 1) - 1

\* datetime.datetime.fromtimestamp(ts).year
RECURSIVE YearFrom(_, _)
YearFrom(y, ts) == IF ts < StartOfYear(y + 1) THEN y ELSE YearFrom(y + 1, ts)
fromtimestamp_year(ts) == YearFrom(1970 + ts \div (366 * 86400), ts)

\* ------------------------------------------------------- the directory tree
\* The file system the run reads. It does not change during a run.
n_ws == <<"w", "s">>
n_b == <<"b">>
n_c == <<"c">>
n_h == <<"h">>
n_nx == <<"n", "x">>
n_dot == <<".">>
n_cfg == <<".", "c", "f", "g">>
n_p == <<"p">>
n_utils == <<"u", "t", "i", "l", "s">>
n_utils_b == <<"u", "t", "i", "l", "s", " ", "(", "b", ")">>
n_lnk == <<"l", "n", "k">>
n_ext == <<"e", "x", "t">>
n_old == <<".", "o", "l", "d">>
n_sub == <<"s", "u", "b">>
n_git == <<".", "g", "i", "t">>
n_tmp == <<"t", "m", "p">>
n_readme == <<"R", "E", "A", "D", "M", "E", ".", "m", "d">>

Dir(name) == [name |-> name, kind |-> "dir"]
\* a symbolic link to the directory whose real path is target
Link(name, target) == [name |-> name, kind |-> "link", target |-> target]
\* a regular file: st_size, st_ctime, its number of non-blank lines, and whether
\* open() succeeds on it
File(name, size, ctime, lines, readable) ==
  [name |-> name, kind |-> "file", size |-> size, ctime |-> ctime,
   lines |-> lines, readable |-> readable]
\* a symbolic link whose target is gone: os.stat and open raise on it
Dangling(name) == [name |-> name, kind |-> "dangling"]

\* The entries of the directory with real path p, in the order the system lists them
FS(p) ==
  CASE p = <<>> -> <<Dir(n_ws), Dir(n_b), Dir(n_c), Dir(n_h)>>
    [] p = <<n_ws>> ->
         <<Dir(n_utils), File(n_readme, 300, StartOfYear(2024), 9, TRUE),
           Link(n_lnk, <<n_ws, n_utils>>), Dir(n_old), Dir(n_utils_b)>>
    [] p = <<n_ws, n_utils>> ->
         <<File(<<"m", "a", "i", "n", ".", "p", "y">>, 1000, StartOfYear(2024), 40, TRUE),
           File(<<"m", "a", "i", "n", "_", "2", ".", "p", "y">>, 500, EndOfYear(2024), 10, TRUE),
           File(<<"m", "a", "i", "n", ".", "c">>, 250, EndOfYear(2023), 5, TRUE),
           File(<<"n", "o", "t", "e", "s", ".", "t", "x", "t">>, 70, StartOfYear(2024), 3, TRUE),
           File(<<"g", "o">>, 2048, StartOfYear(2024), 0, TRUE),
           File(<<".", "e", "n", "v", ".", "p", "y">>, 30, StartOfYear(2024), 2, TRUE),
           Dir(n_sub), Dir(n_git)>>
    [] p = <<n_ws, n_utils, n_sub>> ->
         <<File(<<"a", ".", "c">>, 800, EndOfYear(2023), 20, TRUE),
           File(<<"a", "-", "1", ".", "h">>, 810, EndOfYear(2023), 20, TRUE)>>
    [] p = <<n_ws, n_utils, n_git>> ->
         <<File(<<"h", "o", "o", "k", ".", "p", "y">>, 64, StartOfYear(2025), 4, TRUE)>>
    [] p = <<n_ws, n_old>> ->
         <<File(<<"o", "l", "d", ".", "p", "y">>, 10, StartOfYear(2023), 1, TRUE)>>
    [] p = <<n_ws, n_utils_b>> ->
         <<File(<<"A", "p", "p", ".", "J", "S">>, 1100, StartOfYear(2025), 33, TRUE)>>
    [] p = <<n_b>> -> <<Dir(n_utils), Link(n_ext, <<n_ws, n_utils, n_sub>>)>>
    [] p = <<n_b, n_utils>> ->
         <<File(<<"x", ".", "g", "o">>, 400, StartOfYear(2024) + 86400, 12, TRUE),
           File(<<"k", "e", "y", ".", "p", "y">>, 90, EndOfYear(2024), 7, FALSE)>>
    [] p = <<n_c>> -> <<Dir(n_tmp)>>
    [] p = <<n_c, n_tmp>> ->
         <<File(<<"o", "k", ".", "p", "y">>, 20, StartOfYear(2024), 2, TRUE),
           Dangling(<<"g", "o", "n", "e", ".", "p", "y">>)>>
    [] p = <<n_h>> -> <<Dir(n_cfg)>>
    [] p = <<n_h, n_cfg>> -> <<Dir(n_p)>>
    [] p = <<n_h, n_cfg, n_p>> ->
         <<File(<<"o", "k", ".", "j", "a", "v", "a">>, 600, StartOfYear(2024), 15, TRUE)>>
    [] OTHER -> <<>>

NoEntry == [name |-> <<>>, kind |-> "none"]

\* the entry called name in the real directory p
Lookup(p, name) ==
  IF \E i \in DOMAIN FS(p) : FS(p)[i].name = name
  THEN FS(p)[CHOOSE i \in DOMAIN FS(p) : FS(p)[i].name = name]
  ELSE NoEntry

\* os.path.realpath: every symbolic link on the way replaced by its target; what
\* does not exist is kept as written
RECURSIVE Resolve(_, _)
Resolve(cur, rest) ==
  IF rest = <<>> THEN cur
  ELSE IF Head(rest) = <<".">> THEN Resolve(cur, Tail(rest))
  ELSE IF Head(rest) = <<".", ".">>
  THEN Resolve(IF cur = <<>> THEN cur ELSE SubSeq(cur, 1, Len(cur) - 1), Tail(rest))
  ELSE LET e == Lookup(cur, Head(rest))
       IN IF e.kind = "dir" THEN Resolve(cur \o <<Head(rest)>>, Tail(rest))
          ELSE IF e.kind = "link" THEN Resolve(e.target, Tail(rest))
          ELSE cur \o rest
realpath(path) == Resolve(<<>>, path)

\* the real directories
RECURSIVE IsRealDir(_)
IsRealDir(p) ==
  p = <<>> \/ (IsRealDir(SubSeq(p, 1, Len(p) - 1))
               /\ Lookup(SubSeq(p, 1, Len(p) - 1), Last(p)).kind = "dir")

\* os.path.isdir, os.path.exists
isdir(path) == IsRealDir(realpath(path))
exists(path) ==
  \/ isdir(path)
  \/ LET r == realpath(path)
     IN r # <<>> /\ IsRealDir(SubSeq(r, 1, Len(r) - 1))
        /\ Lookup(SubSeq(r, 1, Len(r) - 1), Last(r)).kind = "file"

\* os.path.abspath of an absolute path: '.' dropped, '..' resolved
RECURSIVE Normalize(_, _)
Normalize(done, rest) ==
  IF rest = <<>> THEN done
  ELSE IF Head(rest) = n_dot THEN Normalize(done, Tail(rest))
  ELSE IF Head(rest) = <<".", ".">>
  THEN Normalize(IF done = <<>> THEN done ELSE SubSeq(done, 1, Len(done) - 1), Tail(rest))
  ELSE Normalize(done \o <<Head(rest)>>, Tail(rest))
abspath(path) == Normalize(<<>>, path)

\* os.path.basename of an absolute path without a trailing separator
basename(path) == IF path = <<>> THEN <<>> ELSE Last(path)

\* path.split(os.sep) of the absolute path: '' before the leading separator
split_sep(path) == <<<<>>>> \o path

\* ------------------------------------------------------------------ state
VARIABLES
  \* what the user types and the module's switches
  mode_choice, root_input, year_input, INCLUDE_HIDDEN, MERGE_SIMILAR_FILES,
  \* where the program is
  pc,
  \* main's locals
  root_dirs, valid_dirs, year, summary,
  \* collect_stats' accumulators
  project_stats, lang_stats, earliest_project_time, latest_project_time,
  visited_dirs, visited_projects,
  \* collect_stats' loops: the roots still to take, the current root, the
  \* entries of its listing still to take
  roots_left, root_dir, listing_left,
  \* the locals of the last round of the project loop; walked_files is
  \* files_info as the walk left it, files_info what line 160 made of it;
  \* outcome is the place the round ended at
  project_name, project_key, walked_files, files_info,
  earliest_file_time, latest_file_time, outcome,
  \* history: every file added to lang_stats, with the key of its project
  counted,
  \* human_size on its own: its argument and what it returned
  size_bytes, size_human

vars ==
  <<mode_choice, root_input, year_input, INCLUDE_HIDDEN, MERGE_SIMILAR_FILES, pc,
    root_dirs, valid_dirs, year, summary, project_stats, lang_stats,
    earliest_project_time, latest_project_time, visited_dirs, visited_projects,
    roots_left, root_dir, listing_left, project_name, project_key, walked_files,
    files_info, earliest_file_time, latest_file_time, outcome, counted,
    size_bytes, size_human>>

\* Python's None where a number is expected, and float('inf')
None == -1
Inf == 2147483647

Min(a, b) == IF a < b THEN a ELSE b
Max(a, b) == IF a > b THEN a ELSE b

\* a dict: d[k] = v
Put(d, k, v) == [x \in (DOMAIN d) \cup {k} |-> IF x = k THEN v ELSE d[x]]
EmptyDict == [x \in {} |-> 0]

\* sum(v[field] for v in d.values())
RECURSIVE SumOver(_, _, _)
SumOver(d, keys, field) ==
  IF keys = {} THEN 0
  ELSE LET k == CHOOSE k \in keys : TRUE
       IN d[k][field] + SumOver(d, keys \ {k}, field)
SumField(d, field) == SumOver(d, DOMAIN d, field)

\* -------------------------------------------------------- count_code_lines
\* the non-blank lines of the file, 0 when open() raises
count_code_lines(filepath) ==
  LET e == Lookup(realpath(SubSeq(filepath, 1, Len(filepath) - 1)), Last(filepath))
  IN IF e.kind = "file" /\ e.readable THEN e.lines ELSE 0

\* --------------------------------------------------------- parse_root_dirs
\* The typed text is the sequence of its pieces between separators; a piece of
\* blanks only is dropped
strip_is_empty(piece) == \A i \in DOMAIN piece : \A j \in DOMAIN piece[i] : piece[i][j] = " "
parse_root_dirs(input_text) ==
  LET Kept(piece) == ~strip_is_empty(piece)
  IN SelectSeq(input_text, Kept)

\* ---------------------------------------------------- _unique_project_name
Tagged(name, tag) == name \o <<" ", "(">> \o tag \o <<")">>
TaggedN(name, tag, counter) == name \o <<" ", "(">> \o tag \o <<"-">> \o str(counter) \o <<")">>

AlwaysPlainName(stats, name, root) == name

TagWithoutSuffix(stats, name, root) ==
  IF name \notin DOMAIN stats THEN name ELSE name \o <<" ", "(">> \o basename(abspath(root)) \o <<")">>

RECURSIVE unique_from(_, _, _, _)
unique_from(stats, name, tag, counter) ==
  IF TaggedN(name, tag, counter) \notin DOMAIN stats THEN TaggedN(name, tag, counter)
  ELSE unique_from(stats, name, tag, counter + 1)

_unique_project_name(stats, name, root) ==
  IF name \notin DOMAIN stats THEN name
  ELSE LET base == basename(abspath(root))
           root_tag == IF base = <<>> THEN <<"r", "o", "o", "t">> ELSE base
       IN IF Tagged(name, root_tag) \notin DOMAIN stats THEN Tagged(name, root_tag)
          ELSE unique_from(stats, name, root_tag, 2)

\* ------------------------------------------------ collect_stats: the walk
\* `if year:` (a year of None or 0 is no filter)
Truthy(y) == y # None /\ y # 0

NeverVisited(real_dirpath, visited) == FALSE

\* `real_dirpath in visited_dirs`
AlreadyVisited(real_dirpath, visited) == real_dirpath \in visited

\* One round of `for file in filenames`; acc holds files_info, the two file
\* times, visited_dirs and whether os.stat raised
ScanFile(dirpath, real_dirpath, file, acc) ==
  LET lang == get_language(file)
      \* os.stat(filepath)
      e == Lookup(real_dirpath, file)
  IN IF lang = NoLang THEN acc
     ELSE IF ~INCLUDE_HIDDEN /\ is_hidden(<<file>>) THEN acc
     ELSE IF e.kind # "file" THEN [acc EXCEPT !.raised = TRUE]
     ELSE IF Truthy(year) /\ fromtimestamp_year(e.ctime) # year THEN acc
     ELSE [acc EXCEPT
             !.files_info = Append(@, [path |-> dirpath \o <<file>>, name |-> file,
                                       lang |-> lang, size |-> e.size, ctime |-> e.ctime]),
             !.earliest_file_time = Min(@, e.ctime),
             !.latest_file_time = Max(@, e.ctime)]

RECURSIVE ScanFiles(_, _, _, _)
ScanFiles(dirpath, real_dirpath, filenames, acc) ==
  IF filenames = <<>> \/ acc.raised THEN acc
  ELSE ScanFiles(dirpath, real_dirpath, Tail(filenames),
                 ScanFile(dirpath, real_dirpath, Head(filenames), acc))

\* os.walk(project_path), top down, symbolic links below the top not followed,
\* with the loop body of lines 117-152; stack holds the directories still to yield
RECURSIVE os_walk(_, _)
os_walk(stack, acc) ==
  IF stack = <<>> \/ acc.raised THEN acc
  ELSE LET dirpath == Head(stack)
           real_dirpath == realpath(dirpath)
           entries == FS(real_dirpath)
           IsDirEntry(e) == e.kind \in {"dir", "link"}
           IsFileEntry(e) == e.kind \in {"file", "dangling"}
           dirs == SelectSeq(entries, IsDirEntry)
           filenames == [i \in DOMAIN SelectSeq(entries, IsFileEntry) |->
                           SelectSeq(entries, IsFileEntry)[i].name]
           NotDotted(e) == ~startswith(e.name, ".")
           kept == IF ~INCLUDE_HIDDEN THEN SelectSeq(dirs, NotDotted) ELSE dirs
           NotLink(e) == e.kind = "dir"
           below == [i \in DOMAIN SelectSeq(kept, NotLink) |->
                       dirpath \o <<SelectSeq(kept, NotLink)[i].name>>]
       IN IF AlreadyVisited(real_dirpath, acc.visited_dirs) THEN os_walk(Tail(stack), acc)
          ELSE LET seen == [acc EXCEPT !.visited_dirs = @ \cup {real_dirpath}]
               IN IF ~INCLUDE_HIDDEN /\ is_hidden(split_sep(dirpath))
                  THEN os_walk(Tail(stack), seen)
                  ELSE os_walk(below \o Tail(stack),
                               ScanFiles(dirpath, real_dirpath, filenames, seen))

\* --------------------------------------- collect_stats: merge and the totals
KeepsEarlier(old, f) == old.ctime > f.ctime

\* `merged[base]['ctime'] < f['ctime']`
Replaces(old, f) == old.ctime < f.ctime

\* lines 155-160; merged is the dict as the sequence of its items
RECURSIVE MergeSimilar(_, _)
MergeSimilar(files, merged) ==
  IF files = <<>> THEN [i \in DOMAIN merged |-> merged[i].f]
  ELSE LET f == Head(files)
           base == normalize_name(f.name)
           hit == {i \in DOMAIN merged : merged[i].base = base}
       IN IF hit = {} THEN MergeSimilar(Tail(files), Append(merged, [base |-> base, f |-> f]))
          ELSE LET i == CHOOSE i \in hit : TRUE
               IN IF Replaces(merged[i].f, f)
                  THEN MergeSimilar(Tail(files), [merged EXCEPT ![i].f = f])
                  ELSE MergeSimilar(Tail(files), merged)

RECURSIVE SumSize(_)
SumSize(files) == IF files = <<>> THEN 0 ELSE Head(files).size + SumSize(Tail(files))

RECURSIVE SumLines(_)
SumLines(files) ==
  IF files = <<>> THEN 0 ELSE count_code_lines(Head(files).path) + SumLines(Tail(files))

\* lines 167-170 on the defaultdict
RECURSIVE AddToLangStats(_, _)
AddToLangStats(stats, files) ==
  IF files = <<>> THEN stats
  ELSE LET f == Head(files)
           old == IF f.lang \in DOMAIN stats THEN stats[f.lang]
                  ELSE [files |-> 0, size |-> 0, lines |-> 0]
       IN AddToLangStats(
            Put(stats, f.lang, [files |-> old.files + 1, size |-> old.size + f.size,
                                lines |-> old.lines + count_code_lines(f.path)]),
            Tail(files))

\* lines 172-177
ProjectEntry(files, earliest) ==
  [file_count |-> Len(files), total_size |-> SumSize(files),
   total_lines |-> SumLines(files), earliest_file_time |-> earliest]

KeepZero(t) == t

\* lines 181-184
NoneIfInf(t) == IF t = Inf THEN None ELSE t
NoneIfZero(t) == IF t = 0 THEN None ELSE t

\* os.listdir(root_dir)
listdir(path) == [i \in DOMAIN FS(realpath(path)) |-> FS(realpath(path))[i].name]

\* ------------------------------------------------------------ main's summary
NoSummary == [made |-> FALSE]

\* int(total_size / 1.5)
Keystrokes(total_size) == (2 * total_size) \div 3

\* lines 405-419
SummaryOf(stats, total_files, total_lines, total_size, earliest, latest) ==
  [made |-> TRUE,
   project_count |-> Cardinality(DOMAIN stats),
   total_files |-> total_files,
   total_lines |-> total_lines,
   total_size |-> total_size,
   total_size_human |-> human_size(BigInt(total_size)),
   keystrokes |-> Keystrokes(total_size),
   earliest_file_time |-> earliest,
   latest_file_time |-> latest]

Summary(stats, earliest, latest) ==
  SummaryOf(stats, SumField(stats, "file_count"), SumField(stats, "total_lines"),
            SumField(stats, "total_size"), earliest, latest)

\* ------------------------------------------------------------------ inputs
\* a piece of blanks between two separators
BlankPiece == <<<<" ">>>>

\* the pieces a user may type at the path prompt
RootChoices ==
  { <<n_ws>>, <<n_b>>, <<n_c>>, <<n_ws, n_dot, n_utils>>, <<n_h, n_cfg>>,
    <<n_nx>>, <<n_ws, n_readme>>, BlankPiece }

\* the typed texts: up to MaxRoots pieces, a blank piece only after the last separator
RootInputs ==
  {t \in UNION {[1..n -> RootChoices] : n \in 0..MaxRoots} :
     \A i \in 1..(Len(t) - 1) : t[i] # BlankPiece}

\* mode and year as typed: lifetime, annual with 0, 2024 or a non-number
Prompts ==
  { [mode |-> <<"1">>, year |-> <<>>],
    [mode |-> <<"2">>, year |-> <<"0">>],
    [mode |-> <<"2">>, year |-> <<"2", "0", "2", "4">>],
    [mode |-> <<"2">>, year |-> <<"2", "0", "2", "x">>] }

\* byte counts for human_size on its own: digits that sit at and around the
\* unit limits and the rounding ties, below 2^53
SizeDigits == {0, 1, 128, 512, 1023}
SizeInputs ==
  {d \in UNION {[1..n -> SizeDigits] : n \in 0..MaxDigits} :
     d # <<>> => (Last(d) # 0 /\ (Len(d) > 5 => Last(d) < 8))}

\* -------------------------------------------------------------------- Init
Idle ==
  /\ root_dirs = <<>> /\ valid_dirs = <<>> /\ year = None /\ summary = NoSummary
  /\ project_stats = EmptyDict /\ lang_stats = EmptyDict
  /\ earliest_project_time = Inf /\ latest_project_time = 0
  /\ visited_dirs = {} /\ visited_projects = {}
  /\ roots_left = <<>> /\ root_dir = <<>> /\ listing_left = <<>>
  /\ project_name = <<>> /\ project_key = <<>> /\ walked_files = <<>>
  /\ files_info = <<>> /\ earliest_file_time = Inf /\ latest_file_time = 0
  /\ outcome = "none" /\ counted = <<>>

Init ==
  /\ \E p \in Prompts : mode_choice = p.mode /\ year_input = p.year
  /\ root_input \in RootInputs
  /\ INCLUDE_HIDDEN \in BOOLEAN
  /\ MERGE_SIMILAR_FILES \in BOOLEAN
  \* a rejected year ends main before the switches are read
  /\ (mode_choice = <<"2">> /\ ~isdigit(year_input)) => (~INCLUDE_HIDDEN /\ ~MERGE_SIMILAR_FILES)
  /\ pc = "main_roots"
  /\ Idle
  /\ size_bytes = <<>> /\ size_human = human_size(<<>>)

\* ----------------------------------------------------------- main, 371-403
mainVars == <<mode_choice, root_input, year_input, INCLUDE_HIDDEN, MERGE_SIMILAR_FILES>>
statsVars ==
  <<project_stats, lang_stats, earliest_project_time, latest_project_time,
    visited_dirs, visited_projects, counted>>
roundVars ==
  <<project_name, project_key, walked_files, files_info, earliest_file_time,
    latest_file_time, outcome>>
sizeVars == <<size_bytes, size_human>>

\* lines 377-381
main_parse_roots ==
  /\ pc = "main_roots"
  /\ root_dirs' = parse_root_dirs(root_input)
  /\ pc' = IF root_dirs' = <<>> THEN "returned" ELSE "main_valid"
  /\ UNCHANGED <<mainVars, statsVars, roundVars, sizeVars, valid_dirs, year, summary,
                 roots_left, root_dir, listing_left>>

\* lines 382-390
main_valid_dirs ==
  /\ pc = "main_valid"
  /\ valid_dirs' = SelectSeq(root_dirs, exists)
  /\ pc' = IF valid_dirs' = <<>> THEN "returned" ELSE "main_year"
  /\ UNCHANGED <<mainVars, statsVars, roundVars, sizeVars, root_dirs, year, summary,
                 roots_left, root_dir, listing_left>>

\* lines 393-403, up to the call of collect_stats
main_year ==
  /\ pc = "main_year"
  /\ IF mode_choice = <<"2">>
     THEN IF ~isdigit(year_input)
          THEN pc' = "returned" /\ UNCHANGED <<year, roots_left>>
          ELSE pc' = "collect" /\ year' = int(year_input) /\ roots_left' = valid_dirs
     ELSE pc' = "collect" /\ year' = None /\ roots_left' = valid_dirs
  /\ UNCHANGED <<mainVars, statsVars, roundVars, sizeVars, root_dirs, valid_dirs,
                 summary, root_dir, listing_left>>

\* ---------------------------------------------------- collect_stats, 84-186
\* lines 95-99: the next root
collect_next_root ==
  /\ pc = "collect"
  /\ listing_left = <<>>
  /\ roots_left # <<>>
  /\ root_dir' = abspath(Head(roots_left))
  /\ roots_left' = Tail(roots_left)
  /\ listing_left' = IF isdir(root_dir') THEN listdir(root_dir') ELSE <<>>
  /\ UNCHANGED <<mainVars, statsVars, roundVars, sizeVars, pc, root_dirs, valid_dirs,
                 year, summary>>

\* lines 154-179 of a round whose walk returned w and left kept in files_info
RoundEnd(key, w, kept) ==
  IF w.raised THEN [outcome |-> "raised", files_info |-> files_info,
                    lang_stats |-> lang_stats, counted |-> counted,
                    project_stats |-> project_stats,
                    earliest_project_time |-> earliest_project_time,
                    latest_project_time |-> latest_project_time]
  ELSE IF kept = <<>> THEN [outcome |-> "empty", files_info |-> kept,
                            lang_stats |-> lang_stats, counted |-> counted,
                            project_stats |-> project_stats,
                            earliest_project_time |-> earliest_project_time,
                            latest_project_time |-> latest_project_time]
  ELSE [outcome |-> "added", files_info |-> kept,
        lang_stats |-> AddToLangStats(lang_stats, kept),
        counted |-> counted \o [i \in DOMAIN kept |->
                                  [path |-> kept[i].path, name |-> kept[i].name,
                                   lang |-> kept[i].lang, size |-> kept[i].size,
                                   ctime |-> kept[i].ctime, key |-> key]],
        project_stats |-> Put(project_stats, key, ProjectEntry(kept, w.earliest_file_time)),
        earliest_project_time |-> Min(earliest_project_time, w.earliest_file_time),
        latest_project_time |-> Max(latest_project_time, w.latest_file_time)]

\* lines 154-160
AfterMerge(files) == IF MERGE_SIMILAR_FILES THEN MergeSimilar(files, <<>>) ELSE files

\* lines 99-179: one round of `for project_name in os.listdir(root_dir)`
collect_project ==
  /\ pc = "collect"
  /\ listing_left # <<>>
  /\ listing_left' = Tail(listing_left)
  /\ project_name' = Head(listing_left)
  /\ LET project_path == root_dir \o <<Head(listing_left)>>
     IN IF ~isdir(project_path)
        THEN outcome' = "not_dir"
             /\ UNCHANGED <<pc, statsVars, project_key, walked_files, files_info,
                            earliest_file_time, latest_file_time>>
        ELSE IF ~INCLUDE_HIDDEN /\ is_hidden(split_sep(project_path))
        THEN outcome' = "hidden"
             /\ UNCHANGED <<pc, statsVars, project_key, walked_files, files_info,
                            earliest_file_time, latest_file_time>>
        ELSE IF realpath(project_path) \in visited_projects
        THEN outcome' = "seen"
             /\ UNCHANGED <<pc, statsVars, project_key, walked_files, files_info,
                            earliest_file_time, latest_file_time>>
        ELSE /\ visited_projects' = visited_projects \cup {realpath(project_path)}
             /\ project_key' = _unique_project_name(project_stats, Head(listing_left), root_dir)
             /\ \E w \in {os_walk(<<project_path>>,
                                  [files_info |-> <<>>, earliest_file_time |-> Inf,
                                   latest_file_time |-> 0, visited_dirs |-> visited_dirs,
                                   raised |-> FALSE])} :
                  /\ visited_dirs' = w.visited_dirs
                  /\ walked_files' = w.files_info
                  /\ earliest_file_time' = w.earliest_file_time
                  /\ latest_file_time' = w.latest_file_time
                  /\ \E kept \in {AfterMerge(w.files_info)} :
                       \E r \in {RoundEnd(project_key', w, kept)} :
                         /\ outcome' = r.outcome
                         /\ pc' = IF r.outcome = "raised" THEN "raised" ELSE pc
                         /\ files_info' = r.files_info
                         /\ lang_stats' = r.lang_stats
                         /\ counted' = r.counted
                         /\ project_stats' = r.project_stats
                         /\ earliest_project_time' = r.earliest_project_time
                         /\ latest_project_time' = r.latest_project_time
  /\ UNCHANGED <<mainVars, sizeVars, root_dirs, valid_dirs, year, summary, roots_left,
                 root_dir>>

\* lines 181-186: the return
collect_return ==
  /\ pc = "collect"
  /\ listing_left = <<>>
  /\ roots_left = <<>>
  /\ earliest_project_time' = NoneIfInf(earliest_project_time)
  /\ latest_project_time' = NoneIfZero(latest_project_time)
  /\ pc' = "main_summary"
  /\ UNCHANGED <<mainVars, roundVars, sizeVars, root_dirs, valid_dirs, year, summary,
                 project_stats, lang_stats, visited_dirs, visited_projects, counted,
                 roots_left, root_dir, listing_left>>

\* lines 405-419
main_summary ==
  /\ pc = "main_summary"
  /\ summary' = Summary(project_stats, earliest_project_time, latest_project_time)
  /\ pc' = "done"
  /\ UNCHANGED <<mainVars, statsVars, roundVars, sizeVars, root_dirs, valid_dirs, year,
                 roots_left, root_dir, listing_left>>

\* ------------------------------------- collect_stats as one call, 84-186
\* the accumulators of lines 85-90
NoStats ==
  [project_stats |-> EmptyDict, lang_stats |-> EmptyDict, visited_dirs |-> {},
   visited_projects |-> {}, raised |-> FALSE]

\* lines 99-179: `for project_name in os.listdir(root_dir)` from names on
RECURSIVE for_projects(_, _, _)
for_projects(dir, names, st) ==
  IF names = <<>> \/ st.raised THEN st
  ELSE LET project_path == dir \o <<Head(names)>>
       IN IF \/ ~isdir(project_path)
             \/ ~INCLUDE_HIDDEN /\ is_hidden(split_sep(project_path))
             \/ realpath(project_path) \in st.visited_projects
          THEN for_projects(dir, Tail(names), st)
          ELSE LET key == _unique_project_name(st.project_stats, Head(names), dir)
                   w == os_walk(<<project_path>>,
                                [files_info |-> <<>>, earliest_file_time |-> Inf,
                                 latest_file_time |-> 0, visited_dirs |-> st.visited_dirs,
                                 raised |-> FALSE])
                   kept == AfterMerge(w.files_info)
                   added == ~w.raised /\ kept # <<>>
               IN for_projects(dir, Tail(names),
                    [project_stats |->
                       IF added
                       THEN Put(st.project_stats, key, ProjectEntry(kept, w.earliest_file_time))
                       ELSE st.project_stats,
                     lang_stats |->
                       IF added THEN AddToLangStats(st.lang_stats, kept) ELSE st.lang_stats,
                     visited_dirs |-> w.visited_dirs,
                     visited_projects |-> st.visited_projects \cup {realpath(project_path)},
                     raised |-> w.raised])

\* lines 95-99: `for root_dir in root_dirs`
RECURSIVE for_roots(_, _)
for_roots(roots, st) ==
  IF roots = <<>> \/ st.raised THEN st
  ELSE LET dir == abspath(Head(roots))
       IN for_roots(Tail(roots),
                    IF isdir(dir) THEN for_projects(dir, listdir(dir), st) ELSE st)

\* what collect_stats(roots) leaves in project_stats and lang_stats
collect_stats(roots) == for_roots(roots, NoStats)

Next ==
  \/ main_parse_roots
  \/ main_valid_dirs
  \/ main_year
  \/ collect_next_root
  \/ collect_project
  \/ collect_return
  \/ main_summary

Spec == Init /\ [][Next]_vars

\* ------------------------------------------------------ human_size on its own
InitSize ==
  /\ mode_choice = <<"1">> /\ year_input = <<>> /\ root_input = <<>>
  /\ INCLUDE_HIDDEN = FALSE /\ MERGE_SIMILAR_FILES = FALSE
  /\ pc = "size"
  /\ Idle
  /\ size_bytes \in SizeInputs
  /\ size_human = human_size(<<>>)

call_human_size ==
  /\ pc = "size"
  /\ size_human' = human_size(size_bytes)
  /\ pc' = "sized"
  /\ UNCHANGED <<mainVars, statsVars, roundVars, root_dirs, valid_dirs, year, summary,
                 roots_left, root_dir, listing_left, size_bytes>>

NextSize == call_human_size

SpecSize == InitSize /\ [][NextSize]_vars

\* ================================================================== claims
\* the real directory a counted file lies in, and the file itself
RealDirOf(f) == realpath(SubSeq(f.path, 1, Len(f.path) - 1))
RealFileOf(f) == RealDirOf(f) \o <<f.name>>
CountedWith(field, value) == {i \in DOMAIN counted : counted[i][field] = value}

\* C1: in one run no real directory contributes its files twice: no real file is
\* counted twice, all counted files of one real directory belong to one project
\* entry, and the project and language file counts hold each counted file once.
C1_NoDirectoryCountedTwice ==
  \A dirs \in {[i \in DOMAIN counted |-> RealDirOf(counted[i])]} :
    /\ \A i, j \in DOMAIN counted :
         (i # j /\ dirs[i] = dirs[j]) =>
            counted[i].name # counted[j].name /\ counted[i].key = counted[j].key
    /\ \A k \in DOMAIN project_stats :
         project_stats[k].file_count = Cardinality(CountedWith("key", k))
    /\ SumField(lang_stats, "files") = Len(counted)

\* a finished run over /ws and then /ws/./utils, whose project sub was walked
\* before as a directory of the project /ws/utils
C1_Witness ==
  /\ pc = "done"
  /\ valid_dirs = <<<<n_ws>>, <<n_ws, n_dot, n_utils>>>>
  /\ \E i \in DOMAIN counted : RealDirOf(counted[i]) = <<n_ws, n_utils, n_sub>>

\* C2: the file counts of the project map and of the language map have the same
\* sum, and every counted file has one language, under which it is counted.
C2_FilesPartitionedByLanguage ==
  /\ SumField(project_stats, "file_count") = SumField(lang_stats, "files")
  /\ \A i \in DOMAIN counted : counted[i].lang # NoLang /\ counted[i].lang \in DOMAIN lang_stats
  /\ \A l \in DOMAIN lang_stats : lang_stats[l].files = Cardinality(CountedWith("lang", l))
  /\ pc = "done" => summary.total_files = SumField(lang_stats, "files")

C2_Witness ==
  /\ pc = "done"
  /\ INCLUDE_HIDDEN /\ MERGE_SIMILAR_FILES /\ Truthy(year)
  /\ Cardinality(DOMAIN project_stats) >= 2
  /\ Cardinality(DOMAIN lang_stats) >= 2

\* C3: a round that adds a project adds one new key and leaves every entry that
\* was there as it was; the key is the directory's name, when that is taken the
\* name tagged with the root's base name, when that is taken too the tag with the
\* first free number from 2 on.
MaxSuffix == 3
C3_Step ==
  /\ \A k \in DOMAIN project_stats :
       k \in DOMAIN project_stats' /\ project_stats'[k] = project_stats[k]
  /\ (counted' # counted) =>
       /\ project_key' \notin DOMAIN project_stats
       /\ DOMAIN project_stats' = (DOMAIN project_stats) \cup {project_key'}
       /\ project_stats'[project_key'].file_count = Len(counted') - Len(counted)
       /\ IF project_name' \notin DOMAIN project_stats
          THEN project_key' = project_name'
          ELSE IF Tagged(project_name', basename(root_dir)) \notin DOMAIN project_stats
          THEN project_key' = Tagged(project_name', basename(root_dir))
          ELSE \E n \in 2..MaxSuffix :
                 /\ project_key' = TaggedN(project_name', basename(root_dir), n)
                 /\ \A m \in 2..(n - 1) :
                      TaggedN(project_name', basename(root_dir), m) \in DOMAIN project_stats
C4_OnlyFilesOfTheYear ==
  (mode_choice = <<"2">> /\ pc \in {"collect", "main_summary", "done"}) =>
     /\ \A i \in DOMAIN counted : fromtimestamp_year(counted[i].ctime) = year
     /\ \A k \in DOMAIN project_stats : project_stats[k].file_count > 0

\* C5: a file whose extension (the lower-cased text after the last '.', none when
\* the name has no '.') is not in the table is never counted.
KnownExtensions == UNION {LANG_EXTENSIONS[k].exts : k \in DOMAIN LANG_EXTENSIONS}
C5_UnknownExtensionNeverCounted ==
  /\ \A i \in DOMAIN counted :
       /\ rfind(counted[i].name, ".") > 0
       /\ lower(SubSeq(counted[i].name, rfind(counted[i].name, ".") + 1,
                       Len(counted[i].name))) \in KnownExtensions
  /\ \A i \in DOMAIN walked_files : rfind(walked_files[i].name, ".") > 0

\* C6: with hidden inclusion off, a project directory is skipped as hidden
\* exactly when its own name starts with a dot.
C6_HiddenByOwnName ==
  (~INCLUDE_HIDDEN /\ outcome \in {"hidden", "seen", "empty", "added", "raised"}) =>
     (outcome = "hidden" <=> startswith(project_name, "."))

\* C7: with merge-similar-files on, of a project's files with one normalized
\* name exactly one is kept and none of them is later than it; the project entry
\* and the language totals are made of the kept files.
C7_MergeKeepsLatest ==
  (MERGE_SIMILAR_FILES /\ outcome \in {"added", "empty"}) =>
     /\ \A i \in DOMAIN files_info : \E j \in DOMAIN walked_files : walked_files[j] = files_info[i]
     /\ \A j \in DOMAIN walked_files :
          /\ Cardinality({i \in DOMAIN files_info :
                            normalize_name(files_info[i].name)
                              = normalize_name(walked_files[j].name)}) = 1
          /\ \A i \in DOMAIN files_info :
               normalize_name(files_info[i].name) = normalize_name(walked_files[j].name)
                 => files_info[i].ctime >= walked_files[j].ctime
     /\ outcome = "added" =>
          /\ project_stats[project_key].file_count = Len(files_info)
          /\ project_stats[project_key].total_size = SumSize(files_info)
          /\ project_stats[project_key].total_lines = SumLines(files_info)
          /\ Len(counted) >= Len(files_info)
          /\ \A i \in DOMAIN files_info :
               LET c == counted[Len(counted) - Len(files_info) + i]
               IN c.path = files_info[i].path /\ c.key = project_key
          /\ SumField(lang_stats, "files") = Len(counted)
          /\ SumField(lang_stats, "size") = SumSize(counted)

\* /ws/utils: main.py, main_2.py and main.c merged into one
C7_Witness ==
  /\ MERGE_SIMILAR_FILES /\ outcome = "added"
  /\ Len(files_info) < Len(walked_files)
  /\ \E i \in DOMAIN files_info : files_info[i].name = <<"m", "a", "i", "n", "_", "2", ".", "p", "y">>

\* C8 as stated: a run that finds nothing, with no given root a valid directory
\* or no file passing the filters, ends with an all-zero summary.
YearAccepted == mode_choice # <<"2">> \/ isdigit(year_input)
IsZeroSummary(sm) ==
  /\ sm.made
  /\ sm.project_count = 0 /\ sm.total_files = 0 /\ sm.total_lines = 0
  /\ sm.total_size = 0 /\ sm.keystrokes = 0
  /\ sm.earliest_file_time = None /\ sm.latest_file_time = None
IsPrefix(a, b) == Len(a) <= Len(b) /\ SubSeq(b, 1, Len(a)) = a
C9_NoFileFailsTheRun == pc # "raised" /\ outcome # "raised"

\* C10 as stated: the unit is B, KB, MB, GB below 1024, 1024^2, 1024^3, 1024^4
\* and TB from there on, and the value shown is below 1024 for every unit but TB.
UnitByDigits(d) ==
  IF Len(d) <= 1 THEN "B" ELSE IF Len(d) = 2 THEN "KB" ELSE IF Len(d) = 3 THEN "MB"
  ELSE IF Len(d) = 4 THEN "GB" ELSE "TB"
Shown(whole, cents, unit) == [shown |-> [whole |-> whole, cents |-> cents], unit |-> unit]
C10_Examples ==
  /\ size_bytes = <<1023>> => size_human = Shown(<<1023>>, 0, "B")
  /\ size_bytes = <<0, 1>> => size_human = Shown(<<1>>, 0, "KB")
  /\ size_bytes = <<0, 0, 1>> => size_human = Shown(<<1>>, 0, "MB")
C10_ShownBelow1024 ==
  pc = "sized" =>
    /\ size_human.unit = UnitByDigits(size_bytes)
    /\ size_human.unit # "TB" => Len(size_human.shown.whole) <= 1
    /\ C10_Examples

\* C10 amended: the unit is chosen as stated and the value that is formatted,
\* n / 1024^k, is below 1024 for every unit but TB; the text shows it rounded to
\* two decimals, so that it shows either the integer part of n / 1024^k with 00
\* to 99 hundredths or the next integer with 00, and can read 1024.00.
IntegerPart(d) == IF Len(d) <= 1 THEN d ELSE IF Len(d) <= 4 THEN <<Last(d)>> ELSE Drop(d, 4)
C10_UnitAndRoundedValue ==
  pc = "sized" =>
    /\ size_human.unit = UnitByDigits(size_bytes)
    /\ size_human.shown.cents \in 0..99
    /\ \/ size_human.shown.whole = IntegerPart(size_bytes)
       \/ size_human.shown.whole = Inc(IntegerPart(size_bytes)) /\ size_human.shown.cents = 0
    /\ size_human.unit # "TB" => Len(IntegerPart(size_bytes)) <= 1
    /\ Len(size_bytes) <= 1 => size_human.shown.cents = 0
    /\ Len(size_bytes) = 2 =>
         LET hundredths == 100 * (IF Len(size_human.shown.whole) = 2 THEN 1024
                                  ELSE IF size_human.shown.whole = <<>> THEN 0
                                  ELSE size_human.shown.whole[1])
                           + size_human.shown.cents
             n == size_bytes[1] + 1024 * size_bytes[2]
         IN /\ 1024 * hundredths - 100 * n <= 512
            /\ 100 * n - 1024 * hundredths <= 512
    /\ C10_Examples

\* 1048575 bytes read "1024.00 KB"
C10_Witness ==
  /\ pc = "sized"
  /\ size_bytes = <<1023, 1023>>
  /\ size_human = Shown(<<0, 1>>, 0, "KB")

\* ------------------------------------------------------------------- C11
CtimesOf(rows) == {counted[i].ctime : i \in rows}
Earliest(times) == CHOOSE t \in times : \A u \in times : t <= u
Latest(times) == CHOOSE t \in times : \A u \in times : u <= t

\* C11: the timestamps describe the counted files. Every project entry's
\* earliest_file_time is the least creation time of the files in its file_count,
\* and the returned global earliest and latest times are the least and the
\* greatest creation time of all counted files, with or without the merge of
\* similar files.
C11_TimestampsOfCountedFiles ==
  /\ \A key \in DOMAIN project_stats :
        /\ Cardinality(CountedWith("key", key)) = project_stats[key].file_count
        /\ project_stats[key].earliest_file_time = Earliest(CtimesOf(CountedWith("key", key)))
  /\ pc \in {"main_summary", "done"} =>
        IF counted = <<>>
        THEN earliest_project_time = None /\ latest_project_time = None
        ELSE /\ earliest_project_time = Earliest(CtimesOf(DOMAIN counted))
             /\ latest_project_time = Latest(CtimesOf(DOMAIN counted))

\* ------------------------------------------------------------------- C12
Reorderings(s) ==
  {[i \in DOMAIN s |-> s[f[i]]] :
     f \in {g \in [DOMAIN s -> DOMAIN s] : \A i, j \in DOMAIN s : g[i] = g[j] => i = j}}

LangFiles(stats) == [l \in DOMAIN stats |-> stats[l].files]

\* C12: with the merge of similar files off, the grand totals do not depend on
\* the order of the roots. When collect_stats has returned, collect_stats called
\* with any permutation of the same roots returns too, with the same total file
\* count, the same total byte count and the same file count per language.
C12_TotalsIndependentOfRootOrder ==
  (pc = "main_summary" /\ ~MERGE_SIMILAR_FILES) =>
    \A roots \in Reorderings(valid_dirs) :
      \A r \in {collect_stats(roots)} :
        /\ ~r.raised
        /\ SumField(r.project_stats, "file_count") = SumField(project_stats, "file_count")
        /\ SumField(r.project_stats, "total_size") = SumField(project_stats, "total_size")
        /\ LangFiles(r.lang_stats) = LangFiles(lang_stats)

\* roots /ws/./utils and /ws: the files of /ws/utils/sub are counted under the
\* project sub, while with the roots swapped no project sub exists
C12_Witness ==
  /\ pc = "main_summary" /\ ~MERGE_SIMILAR_FILES
  /\ valid_dirs = <<<<n_ws, n_dot, n_utils>>, <<n_ws>>>>
  /\ n_sub \in DOMAIN project_stats /\ project_stats[n_sub].file_count = 2
  /\ n_utils \in DOMAIN project_stats
  /\ n_sub \notin DOMAIN collect_stats(<<<<n_ws>>, <<n_ws, n_dot, n_utils>>>>).project_stats

====
